---- MODULE Spec2Model ----
(***************************************************************************)
(* A model of the CPS package loader of cps-config (src/src/loader.cpp).   *)
(*                                                                         *)
(* The loader is a pure, single-pass transformation of a parsed JSON       *)
(* document into a Package, or into the first failure met.  The model has  *)
(* three specifications over the same variables:                           *)
(*                                                                         *)
(*   Spec      load(), stepped one TRY at a time, with get_components'     *)
(*             loop stepped one entry at a time;                           *)
(*   SpecLang  get_lang_values applied to a component node;                *)
(*   SpecReq   get_required / get_optional applied to a node.              *)
(*                                                                         *)
(* JSON values are records tagged by their jsoncpp type.  An object holds  *)
(* a function m from the names of its members to their values, so that     *)
(* isMember(name) is name \in DOMAIN m.  jsoncpp keeps the members of an   *)
(* object in a std::map, so iteration is in ascending key order.           *)
(*                                                                         *)
(* tl::expected<T, std::string> is an outcome record: a value, or an       *)
(* unexpected error.  The error strings of the source are represented by   *)
(* the template they are formatted from (kind) and the arguments in the    *)
(* template's slots.  Two further outcomes are not return values at all:   *)
(* abort() in from_string, and the Json::LogicError jsoncpp's asString()   *)
(* raises for an array or an object, which no frame of the loader catches. *)
(*                                                                         *)
(* The TRY macro (error.hpp) returns the error of an unexpected operand    *)
(* from the enclosing function and otherwise yields the operand's value.   *)
(* The operands of a braced initializer list are evaluated left to right.  *)
(***************************************************************************)
EXTENDS Integers, Sequences, FiniteSets, TLC

VARIABLES
    doc,          \* the JSON node the operation is applied to (root / parent)
    arg,          \* SpecLang, SpecReq: [T, parent_name, name] of the call
    pc,           \* position in load()
    name,         \* load: the decoded Name
    cps_version,  \* load: the decoded Cps-Version
    components,   \* get_components: the map built so far
    itr,          \* get_components: position of the iterator in compmap
    compres,      \* what get_components returned to load
    result,       \* what the operation returned (or how the process ended)
    optres        \* SpecReq: what get_optional returns for the same inputs

vars == <<doc, arg, pc, name, cps_version, components, itr, compres, result, optres>>

(***************************************************************************)
(* Bounds of the model.                                                    *)
(***************************************************************************)
\* the largest number of entries of a Components object
MaxComps == 2
\* the largest length of a JSON array
MaxLen == 2

(***************************************************************************)
(* JSON values (jsoncpp's Json::Value).                                    *)
(***************************************************************************)
JNull == [t |-> "null"]
JInt(n) == [t |-> "int", n |-> n]
JStr(s) == [t |-> "string", s |-> s]
JArr(a) == [t |-> "array", a |-> a]
JObj(m) == [t |-> "object", m |-> m]

isString(value) == value.t = "string"
isArray(value) == value.t = "array"
isObject(value) == value.t = "object"
isMember(parent, key) == key \in DOMAIN parent.m

EmptyMap == [k \in {} |-> <<>>]

(***************************************************************************)
(* Outcomes.                                                               *)
(***************************************************************************)
Val(v) == [st |-> "value", v |-> v]
Unexpected(e) == [st |-> "error", e |-> e]
Aborted(s) == [st |-> "abort", msg |-> s]
Threw == [st |-> "threw"]

nullopt == [has |-> FALSE]
Some(x) == [has |-> TRUE, val |-> x]

NoResult == [st |-> "none"]

\* TRY(operand) (error.hpp): an operand that holds an error makes the enclosing
\* function return that error at once; so ends, too, an operand that did not
\* return at all.  Otherwise TRY yields the operand's value.
TRY_fails(r) == r.st # "value"

\* the slot a message template does not have
NoName == "-"

\* "Optional field {} in {} is not of type {}!"
WrongFieldType(field, parent, type) ==
    [kind |-> "WrongFieldType", field |-> field, parent |-> parent, type |-> type]

\* "Required field {} in {} is missing!"
MissingRequiredField(field, parent) ==
    [kind |-> "MissingRequiredField", field |-> field, parent |-> parent, type |-> NoName]

\* "Section {} of {} is neither an object nor an array!"
MalformedSection(section, of) ==
    [kind |-> "MalformedSection", field |-> section, parent |-> of, type |-> NoName]

\* "Components field of {} is empty, but must have at least one component"
EmptyRequiredCollection(field, parent) ==
    [kind |-> "EmptyRequiredCollection", field |-> field, parent |-> parent, type |-> NoName]

(***************************************************************************)
(* Json::Value::asString(): a string is itself, null is "", a number is    *)
(* its decimal text; an array or an object is not convertible.             *)
(***************************************************************************)
asString(v) ==
    IF v.t = "string" THEN Val(v.s)
    ELSE IF v.t = "null" THEN Val("")
    ELSE IF v.t = "int" THEN Val(ToString(v.n))
    ELSE Threw

\* for (auto && v : value) ret.emplace_back(v.asString());
RECURSIVE StringList(_, _)
StringList(a, acc) ==
    IF a = <<>> THEN Val(acc)
    ELSE LET s == asString(Head(a)) IN
         IF s.st # "value" THEN s
         ELSE StringList(Tail(a), Append(acc, s.v))

(***************************************************************************)
(* get_optional<T>, for T = std::string ("string") and                     *)
(* T = std::vector<std::string> ("vector<string>").  The third branch of   *)
(* the template (an unordered_map) is instantiated nowhere.                *)
(***************************************************************************)
get_optional(T, parent, parent_name, field) ==
    IF ~isMember(parent, field) THEN Val(nullopt)
    ELSE LET value == parent.m[field] IN
         IF T = "string" /\ isString(value) THEN Val(Some(value.s))
         ELSE IF T = "vector<string>" /\ isArray(value)
              THEN LET ret == StringList(value.a, <<>>) IN
                   IF ret.st = "value" THEN Val(Some(ret.v)) ELSE ret
         ELSE Unexpected(WrongFieldType(field, parent_name, T))

\* get_required without its isMember test
get_required_NoMemberTest(T, parent, parent_name, field) ==
    LET r == get_optional(T, parent, parent_name, field) IN
    IF r.st # "value" THEN r
    ELSE IF r.v.has THEN Val(r.v.val) ELSE Val("bad")

(***************************************************************************)
(* get_required<T>: and_then passes an error of get_optional through and   *)
(* unwraps a value; its lambda answers an empty optional with "bad".       *)
(***************************************************************************)
get_required(T, parent, parent_name, field) ==
    IF ~isMember(parent, field)
    THEN Unexpected(MissingRequiredField(field, parent_name))
    ELSE LET r == get_optional(T, parent, parent_name, field) IN
         IF r.st # "value" THEN r
         ELSE IF r.v.has THEN Val(r.v.val) ELSE Val("bad")

\* from_string with the enumerator's spelling corrected
from_string_Interface(str) ==
    IF str = "executable" THEN Val("EXECUTABLE")
    ELSE IF str = "archive" THEN Val("ARCHIVE")
    ELSE IF str = "dylib" THEN Val("DYLIB")
    ELSE IF str = "module" THEN Val("MODULE")
    ELSE IF str = "interface" THEN Val("INTERFACE")
    ELSE IF str = "symbolic" THEN Val("SYMBOLIC")
    ELSE Aborted(str)

(***************************************************************************)
(* from_string: the enumerator for one of six spellings; for any other     *)
(* string it prints "Unknown type: ..." and calls abort().                 *)
(***************************************************************************)
from_string(str) ==
    IF str = "executable" THEN Val("EXECUTABLE")
    ELSE IF str = "archive" THEN Val("ARCHIVE")
    ELSE IF str = "dylib" THEN Val("DYLIB")
    ELSE IF str = "module" THEN Val("MODULE")
    ELSE IF str = "interfafce" THEN Val("INTERFACE")
    ELSE IF str = "symbolic" THEN Val("SYMBOLIC")
    ELSE Aborted(str)

(***************************************************************************)
(* LangValues: a map from KnownLanguages to a list of strings.  ret{} is   *)
(* the empty map; ret[k] = v assigns, ret.emplace(k, v) inserts only if k  *)
(* is not yet a key.                                                       *)
(***************************************************************************)
KnownLanguages == {"C", "CPP", "FORTRAN"}

Assign(ret, k, v) == [x \in DOMAIN ret \cup {k} |-> IF x = k THEN v ELSE ret[x]]
Emplace(ret, k, v) == IF k \in DOMAIN ret THEN ret ELSE Assign(ret, k, v)

\* get_optional<std::vector<std::string>>(value, name, key).map(cb), where
\* cb is r.value_or(std::vector<std::string>{})
LangList(value, field, key) ==
    LET r == get_optional("vector<string>", value, field, key) IN
    IF r.st = "value" THEN Val(IF r.v.has THEN r.v.val ELSE <<>>) ELSE r

\* the object form with the C++ list read from the key of the C list
LangObject_KeyC(ret, value, field) ==
    LET c == LangList(value, field, "C") IN
    IF TRY_fails(c) THEN c ELSE
    LET cpp == LangList(value, field, "C") IN
    IF TRY_fails(cpp) THEN cpp ELSE
    LET f == LangList(value, field, "Fortran") IN
    IF TRY_fails(f) THEN f ELSE
    Val(Assign(Assign(Assign(ret, "C", c.v), "CPP", cpp.v), "FORTRAN", f.v))

\* the object form: the keys "C", "C++" and "Fortran", each under TRY
LangObject(ret, value, field) ==
    LET c == LangList(value, field, "C") IN
    IF TRY_fails(c) THEN c ELSE
    LET cpp == LangList(value, field, "C++") IN
    IF TRY_fails(cpp) THEN cpp ELSE
    LET f == LangList(value, field, "Fortran") IN
    IF TRY_fails(f) THEN f ELSE
    Val(Assign(Assign(Assign(ret, "C", c.v), "CPP", cpp.v), "FORTRAN", f.v))

\* the array form with the list given to the first language only
LangArray_OnlyC(ret, value) ==
    LET fin == StringList(value.a, <<>>) IN
    IF fin.st # "value" THEN fin
    ELSE Val(Emplace(ret, "C", fin.v))

\* the array form: fin is built once and emplaced under C, CPP and FORTRAN
LangArray(ret, value) ==
    LET fin == StringList(value.a, <<>>) IN
    IF fin.st # "value" THEN fin
    ELSE Val(Emplace(Emplace(Emplace(ret, "C", fin.v), "CPP", fin.v), "FORTRAN", fin.v))

(***************************************************************************)
(* get_lang_values.  The error of the last branch is formatted with        *)
(* (parent_name, name), in that order.                                     *)
(***************************************************************************)
get_lang_values(parent, parent_name, field) ==
    LET ret == EmptyMap IN
    IF ~isMember(parent, field) THEN Val(ret)
    ELSE LET value == parent.m[field] IN
         IF isObject(value) THEN LangObject(ret, value, field)
         ELSE IF isArray(value) THEN LangArray(ret, value)
         ELSE Unexpected(MalformedSection(parent_name, field))

Component(type, cflags, includes) ==
    [type |-> type, compile_flags |-> cflags, includes |-> includes]

Package(n, v, comps, default_comps) ==
    [name |-> n, cps_version |-> v, components |-> comps,
     default_components |-> default_comps]

\* get_components' tests of the Components field, without the test of empty()
get_components_check_NoEmptyTest(parent, parent_name) ==
    IF ~isMember(parent, "Components")
    THEN Unexpected(MissingRequiredField("Components", parent_name))
    ELSE IF ~isObject(parent.m["Components"])
    THEN Unexpected(WrongFieldType("Components", parent_name, "object"))
    ELSE NoResult

(***************************************************************************)
(* get_components, before its loop: the Components field must be a member, *)
(* an object, and not empty.  The field's name is written into the         *)
(* messages; the name parameter is not used.                               *)
(***************************************************************************)
get_components_check(parent, parent_name) ==
    IF ~isMember(parent, "Components")
    THEN Unexpected(MissingRequiredField("Components", parent_name))
    ELSE IF ~isObject(parent.m["Components"])
    THEN Unexpected(WrongFieldType("Components", parent_name, "object"))
    ELSE IF DOMAIN parent.m["Components"].m = {}
    THEN Unexpected(EmptyRequiredCollection("Components", parent_name))
    ELSE NoResult

(***************************************************************************)
(* The body of get_components' loop for one entry: the entry must be an    *)
(* object; then Type (required, through from_string), Compile-Flags and    *)
(* Includes, each under TRY, in this order.                                *)
(***************************************************************************)
get_components_entry(key, comp) ==
    IF ~isObject(comp) THEN Unexpected(WrongFieldType(key, NoName, "object"))
    ELSE LET str == get_required("string", comp, "Component", "Type")
             type == IF str.st = "value" THEN from_string(str.v) ELSE str
         IN
         IF TRY_fails(type) THEN type ELSE
         LET cflags == get_lang_values(comp, "Component", "Compile-Flags") IN
         IF TRY_fails(cflags) THEN cflags ELSE
         LET includes == get_lang_values(comp, "Component", "Includes") IN
         IF TRY_fails(includes) THEN includes ELSE
         Val(Component(type.v, cflags.v, includes.v))

(***************************************************************************)
(* The members of the Components object are named CompName(1), ...; an     *)
(* iterator is the number of the member it stands at, End past the last.   *)
(***************************************************************************)
CompName(i) == "lib" \o ToString(i)
End == MaxComps + 1

Following(m, i) ==
    LET later == {j \in 1..MaxComps : j > i /\ CompName(j) \in DOMAIN m} IN
    IF later = {} THEN End
    ELSE CHOOSE j \in later : \A k \in later : j <= k

(***************************************************************************)
(* Inputs.  A member a document does not have is written ABSENT while the  *)
(* document is put together, and Members drops it.                         *)
(***************************************************************************)
ABSENT == [t |-> "absent"]

Members(r) == [k \in {x \in DOMAIN r : r[x] # ABSENT} |-> r[k]]

SeqsUpTo(S, n) == UNION {[1..k -> S] : k \in 0..n}

\* elements of a flat array: strings, a number, and an array (not convertible)
FlatElems == {JStr("-O2"), JStr("-g"), JInt(7), JArr(<<>>)}

\* elements of the arrays under a language key
KeyElems == {JStr("-std=c99"), JInt(7)}

KeyValues == {ABSENT, JStr("-x")} \cup {JArr(a) : a \in SeqsUpTo(KeyElems, MaxLen)}

LangObjects ==
    {JObj(Members(("C" :> c) @@ ("C++" :> cpp) @@ ("Fortran" :> f) @@ ("Rust" :> o))) :
        c \in KeyValues, cpp \in KeyValues, f \in KeyValues,
        o \in {ABSENT, JArr(<<JStr("-v")>>)}}

LangFieldValues ==
    {ABSENT, JNull, JInt(5), JStr("-O2")}
        \cup {JArr(a) : a \in SeqsUpTo(FlatElems, MaxLen)}
        \cup LangObjects

LangFields == {"Compile-Flags", "Includes"}

\* component nodes that hold one language-value field, or none
LangParents ==
    {JObj(Members(("Type" :> JStr("archive")) @@ (f :> v))) :
        f \in LangFields, v \in LangFieldValues}

(***************************************************************************)
(* SpecLang: get_lang_values(comp, "Component", name).                     *)
(***************************************************************************)
InitLang ==
    /\ doc \in LangParents
    /\ arg \in [T : {NoName}, parent_name : {"Component"}, name : LangFields]
    /\ pc = "lang"
    /\ name = ""
    /\ cps_version = ""
    /\ components = EmptyMap
    /\ itr = 0
    /\ compres = NoResult
    /\ result = NoResult
    /\ optres = NoResult

CallGetLangValues ==
    /\ pc = "lang"
    /\ result' = get_lang_values(doc, arg.parent_name, arg.name)
    /\ pc' = "returned"
    /\ UNCHANGED <<doc, arg, name, cps_version, components, itr, compres, optres>>

NextLang == CallGetLangValues

SpecLang == InitLang /\ [][NextLang]_vars

(***************************************************************************)
(* SpecReq: get_optional<T>(parent, parent_name, name), then               *)
(* get_required<std::string> (its only instantiation) on the same inputs.  *)
(***************************************************************************)
ReqValues ==
    {ABSENT, JNull, JInt(1), JStr("foo"), JStr("bad"), JObj(EmptyMap)}
        \cup {JArr(a) : a \in SeqsUpTo({JStr("x"), JArr(<<>>)}, MaxLen)}

ReqParents ==
    {JObj(Members(("Name" :> n) @@ ("Type" :> t))) : n \in ReqValues, t \in ReqValues}

InitReq ==
    /\ doc \in ReqParents
    /\ arg \in [T : {"string", "vector<string>"},
                parent_name : {"package", "Component"},
                name : {"Name", "Type"}]
    /\ pc = "opt"
    /\ name = ""
    /\ cps_version = ""
    /\ components = EmptyMap
    /\ itr = 0
    /\ compres = NoResult
    /\ result = NoResult
    /\ optres = NoResult

CallGetOptional ==
    /\ pc = "opt"
    /\ optres' = get_optional(arg.T, doc, arg.parent_name, arg.name)
    /\ pc' = "req"
    /\ UNCHANGED <<doc, arg, name, cps_version, components, itr, compres, result>>

CallGetRequired ==
    /\ pc = "req"
    /\ arg.T = "string"
    /\ result' = get_required(arg.T, doc, arg.parent_name, arg.name)
    /\ pc' = "returned"
    /\ UNCHANGED <<doc, arg, name, cps_version, components, itr, compres, optres>>

NextReq == CallGetOptional \/ CallGetRequired

SpecReq == InitReq /\ [][NextReq]_vars

(***************************************************************************)
(* Claims about get_lang_values (SpecLang).                                *)
(***************************************************************************)
LangReturned == pc = "returned" /\ arg.name \in LangFields

AllStrings(a) == \A i \in 1..Len(a) : isString(a[i])
Texts(a) == [i \in 1..Len(a) |-> a[i].s]

\* C3: when the language-value field is absent from the component,
\* get_lang_values succeeds and the table maps each of C, C++ and Fortran to
\* the empty list (all three keys are present in the table).
C3_AbsentAllThreeEmpty ==
    (LangReturned /\ ~isMember(doc, arg.name))
        => result = Val([l \in KnownLanguages |-> <<>>])

\* C4: when the field is a flat array of strings, get_lang_values succeeds and
\* each of C, C++ and Fortran maps to the list of the array's strings, in the
\* array's order.
C4_ArrayBroadcast ==
    (LangReturned /\ isMember(doc, arg.name) /\ isArray(doc.m[arg.name])
                  /\ AllStrings(doc.m[arg.name].a))
        => result = Val([l \in KnownLanguages |-> Texts(doc.m[arg.name].a)])

C4_Witness ==
    /\ LangReturned
    /\ isMember(doc, arg.name)
    /\ doc.m[arg.name] = JArr(<<JStr("-O2"), JStr("-g")>>)
    /\ result.st = "value"
    /\ DOMAIN result.v = KnownLanguages
    /\ result.v["FORTRAN"] = <<"-O2", "-g">>

\* the list the object form gives a language: that of the array of strings
\* under its key, the empty list when the object has no such key
KeyList(obj, key) == IF isMember(obj, key) THEN Texts(obj.m[key].a) ELSE <<>>
KeyDecodes(obj, key) ==
    isMember(obj, key) => (isArray(obj.m[key]) /\ AllStrings(obj.m[key].a))

\* C5: when the field is an object, each of the keys "C", "C++" and "Fortran"
\* is decoded on its own: a language whose key holds an array of strings maps
\* to that list, a language whose key is absent maps to the empty list, and no
\* other key of the object changes the table.
C5_ObjectPerLanguage ==
    (LangReturned /\ isMember(doc, arg.name) /\ isObject(doc.m[arg.name])
                  /\ \A k \in {"C", "C++", "Fortran"} : KeyDecodes(doc.m[arg.name], k))
        => result = Val(("C" :> KeyList(doc.m[arg.name], "C"))
                        @@ ("CPP" :> KeyList(doc.m[arg.name], "C++"))
                        @@ ("FORTRAN" :> KeyList(doc.m[arg.name], "Fortran")))

C5_Witness ==
    /\ LangReturned
    /\ isMember(doc, arg.name)
    /\ doc.m[arg.name] = JObj(("C" :> JArr(<<JStr("-std=c99")>>))
                              @@ ("Rust" :> JArr(<<JStr("-v")>>)))
    /\ result = Val(("C" :> <<"-std=c99">>) @@ ("CPP" :> <<>>) @@ ("FORTRAN" :> <<>>))

\* C9: when the field is present and neither an object nor an array,
\* get_lang_values returns a MalformedSection failure whose section is the
\* field and whose parent is the component node.
C9_MalformedNamesFieldThenParent ==
    (LangReturned /\ isMember(doc, arg.name)
                  /\ ~isObject(doc.m[arg.name]) /\ ~isArray(doc.m[arg.name]))
        => /\ result.st = "error"
           /\ result.e.kind = "MalformedSection"
           /\ result.e.field = arg.name
           /\ result.e.parent = arg.parent_name

(***************************************************************************)
(* Claims about get_required (SpecReq).                                    *)
(***************************************************************************)
\* C8: get_required returns MissingRequiredField, naming the field and the
\* parent, for an absent field; for a present field that is not a string,
\* the WrongFieldType failure get_optional returns for the same inputs; and
\* for a present string, that string.
C8_RequiredOverOptional ==
    (pc = "returned" /\ arg.T = "string")
        => IF ~isMember(doc, arg.name)
           THEN result = Unexpected(MissingRequiredField(arg.name, arg.parent_name))
           ELSE IF ~isString(doc.m[arg.name])
           THEN /\ result = optres
                /\ result.st = "error"
                /\ result.e.kind = "WrongFieldType"
                /\ result.e.field = arg.name
                /\ result.e.parent = arg.parent_name
           ELSE result = Val(doc.m[arg.name].s)

C8_Witness ==
    /\ pc = "returned"
    /\ arg.T = "string"
    /\ ~isMember(doc, arg.name)
    /\ result.st = "error"
    /\ result.e.kind = "MissingRequiredField"

(***************************************************************************)
(* Spec: load().  The root of the document is an object.                   *)
(***************************************************************************)
TypeValues ==
    {ABSENT, JInt(3), JStr("bogus"), JStr("Executable")}
        \cup {JStr(x) : x \in {"executable", "archive", "dylib", "module",
                                "interfafce", "symbolic"}}

CompNode(t, cflags, includes) ==
    JObj(Members(("Type" :> t) @@ ("Compile-Flags" :> cflags) @@ ("Includes" :> includes)))

ComponentValues ==
    {JStr("lib")}
        \cup {CompNode(t, ABSENT, ABSENT) : t \in TypeValues}
        \cup {CompNode(JStr("archive"), f, ABSENT) :
                f \in {JInt(5), JArr(<<JStr("-O2")>>), JArr(<<JArr(<<>>)>>),
                       JObj("C" :> JArr(<<JStr("-std=c99")>>))}}
        \cup {CompNode(JStr("archive"), ABSENT, i) :
                i \in {JNull, JArr(<<JStr("/usr/include")>>)}}
        \cup {CompNode(JStr("bogus"), JInt(5), ABSENT)}

ComponentsValues ==
    {ABSENT, JArr(<<>>)}
        \cup {JObj(Members([k \in {CompName(i) : i \in 1..MaxComps} |-> c[k]])) :
                c \in [{CompName(i) : i \in 1..MaxComps} -> ComponentValues \cup {ABSENT}]}

Documents ==
    {JObj(Members(("Name" :> n) @@ ("Cps-Version" :> v)
                  @@ ("Components" :> c) @@ ("Default-Components" :> d))) :
        n \in {ABSENT, JInt(1), JStr("foo")},
        v \in {ABSENT, JNull, JStr("0.9.0")},
        c \in ComponentsValues,
        d \in {ABSENT, JStr("lib1"), JArr(<<JStr("lib1")>>)}}

Init ==
    /\ doc \in Documents
    /\ arg = [T |-> NoName, parent_name |-> "package", name |-> NoName]
    /\ pc = "name"
    /\ name = ""
    /\ cps_version = ""
    /\ components = EmptyMap
    /\ itr = 0
    /\ compres = NoResult
    /\ result = NoResult
    /\ optres = NoResult

\* how the process ends when an operand did not return to its caller
Ended(r) == IF r.st = "abort" THEN "aborted" ELSE "threw"

\* TRY(get_required<std::string>(root, "package", "Name"))
LoadName ==
    /\ pc = "name"
    /\ LET r == get_required("string", doc, "package", "Name") IN
       IF ~TRY_fails(r)
       THEN /\ name' = r.v
            /\ pc' = "cps_version"
            /\ UNCHANGED result
       ELSE /\ result' = r
            /\ pc' = IF r.st = "error" THEN "returned" ELSE Ended(r)
            /\ UNCHANGED name
    /\ UNCHANGED <<doc, arg, cps_version, components, itr, compres, optres>>

\* TRY(get_required<std::string>(root, "package", "Cps-Version"))
LoadCpsVersion ==
    /\ pc = "cps_version"
    /\ LET r == get_required("string", doc, "package", "Cps-Version") IN
       IF ~TRY_fails(r)
       THEN /\ cps_version' = r.v
            /\ pc' = "components"
            /\ UNCHANGED result
       ELSE /\ result' = r
            /\ pc' = IF r.st = "error" THEN "returned" ELSE Ended(r)
            /\ UNCHANGED cps_version
    /\ UNCHANGED <<doc, arg, name, components, itr, compres, optres>>

\* get_components(root, "package", "Components"), up to compmap.begin()
GetComponentsBegin ==
    /\ pc = "components"
    /\ LET r == get_components_check(doc, "package") IN
       IF r.st = "error"
       THEN /\ compres' = r
            /\ pc' = "components_try"
            /\ UNCHANGED <<components, itr>>
       ELSE /\ components' = EmptyMap
            /\ itr' = Following(doc.m["Components"].m, 0)
            /\ pc' = "loop"
            /\ UNCHANGED compres
    /\ UNCHANGED <<doc, arg, name, cps_version, result, optres>>

\* one iteration of get_components' loop
GetComponentsLoop ==
    /\ pc = "loop"
    /\ itr # End
    /\ LET compmap == doc.m["Components"].m
           key == CompName(itr)
           r == get_components_entry(key, compmap[key])
       IN
       IF r.st = "value"
       THEN /\ components' = Assign(components, key, r.v)
            /\ itr' = Following(compmap, itr)
            /\ UNCHANGED <<pc, compres, result>>
       ELSE IF r.st = "error"
       THEN /\ compres' = r
            /\ pc' = "components_try"
            /\ UNCHANGED <<components, itr, result>>
       ELSE /\ result' = r
            /\ pc' = Ended(r)
            /\ UNCHANGED <<components, itr, compres>>
    /\ UNCHANGED <<doc, arg, name, cps_version, optres>>

\* itr == compmap.end(): return components
GetComponentsEnd ==
    /\ pc = "loop"
    /\ itr = End
    /\ compres' = Val(components)
    /\ pc' = "components_try"
    /\ UNCHANGED <<doc, arg, name, cps_version, components, itr, result, optres>>

\* TRY(get_components(...)) in load
LoadComponents ==
    /\ pc = "components_try"
    /\ IF TRY_fails(compres)
       THEN /\ result' = compres
            /\ pc' = "returned"
       ELSE /\ pc' = "default_components"
            /\ UNCHANGED result
    /\ UNCHANGED <<doc, arg, name, cps_version, components, itr, compres, optres>>

\* TRY(get_optional<std::vector<std::string>>(root, "package",
\* "Default-Components")), and the Package of the four operands
LoadDefaultComponents ==
    /\ pc = "default_components"
    /\ LET r == get_optional("vector<string>", doc, "package", "Default-Components") IN
       IF ~TRY_fails(r)
       THEN /\ result' = Val(Package(name, cps_version, compres.v, r.v))
            /\ pc' = "returned"
       ELSE /\ result' = r
            /\ pc' = IF r.st = "error" THEN "returned" ELSE Ended(r)
    /\ UNCHANGED <<doc, arg, name, cps_version, components, itr, compres, optres>>

Next ==
    \/ LoadName
    \/ LoadCpsVersion
    \/ GetComponentsBegin
    \/ GetComponentsLoop
    \/ GetComponentsEnd
    \/ LoadComponents
    \/ LoadDefaultComponents

Spec == Init /\ [][Next]_vars

(***************************************************************************)
(* Claims about load (Spec).  What the document's schema makes of a        *)
(* document is stated here from the document alone.                        *)
(***************************************************************************)
Terminal == pc \in {"returned", "aborted", "threw"}

Spellings == {"executable", "archive", "dylib", "module", "interfafce", "symbolic"}

KindOf(spelling) ==
    CASE spelling = "executable" -> "EXECUTABLE"
      [] spelling = "archive" -> "ARCHIVE"
      [] spelling = "dylib" -> "DYLIB"
      [] spelling = "module" -> "MODULE"
      [] spelling = "interfafce" -> "INTERFACE"
      [] spelling = "symbolic" -> "SYMBOLIC"

StringField(node, f) == isMember(node, f) /\ isString(node.m[f])

\* a language-value field that is neither absent, nor an array, nor an object
\* whose language keys hold arrays
LangMalformed(comp, f) ==
    /\ isMember(comp, f)
    /\ LET v == comp.m[f] IN
       \/ ~isObject(v) /\ ~isArray(v)
       \/ isObject(v) /\ \E k \in {"C", "C++", "Fortran"} :
                            isMember(v, k) /\ ~isArray(v.m[k])

\* an entry that is not an object, has no Type string, or a malformed
\* Compile-Flags or Includes
EntryInvalid(comp) ==
    \/ ~isObject(comp)
    \/ ~StringField(comp, "Type")
    \/ LangMalformed(comp, "Compile-Flags")
    \/ LangMalformed(comp, "Includes")

\* an entry whose Type is a string that is not one of the six spellings
EntryUnknownType(comp) ==
    isObject(comp) /\ StringField(comp, "Type") /\ comp.m["Type"].s \notin Spellings

ComponentsShapeValid ==
    /\ isMember(doc, "Components")
    /\ isObject(doc.m["Components"])
    /\ DOMAIN doc.m["Components"].m # {}

Entries == doc.m["Components"].m

NameInvalid == ~StringField(doc, "Name")
CpsVersionInvalid == ~StringField(doc, "Cps-Version")
ComponentsInvalid ==
    \/ ~ComponentsShapeValid
    \/ \E k \in DOMAIN Entries : EntryInvalid(Entries[k]) \/ EntryUnknownType(Entries[k])
DefaultComponentsInvalid ==
    isMember(doc, "Default-Components") /\ ~isArray(doc.m["Default-Components"])

InvalidFields ==
    {f \in {"Name", "Cps-Version", "Components", "Default-Components"} :
        \/ f = "Name" /\ NameInvalid
        \/ f = "Cps-Version" /\ CpsVersionInvalid
        \/ f = "Components" /\ ComponentsInvalid
        \/ f = "Default-Components" /\ DefaultComponentsInvalid}

EarliestInvalid ==
    IF NameInvalid THEN "Name"
    ELSE IF CpsVersionInvalid THEN "Cps-Version"
    ELSE IF ComponentsInvalid THEN "Components"
    ELSE "Default-Components"

\* the top-level field a failure belongs to
FieldOf(e) ==
    IF e.parent = "package" /\ e.field \in {"Name", "Cps-Version", "Default-Components"}
    THEN e.field
    ELSE "Components"

\* C1: load evaluates Name, Cps-Version, Components, Default-Components in
\* this order: for a document in which two or more of them are invalid, load
\* returns the failure of the earliest invalid one (MissingRequiredField for
\* a missing Name), and has examined no later field.
C1_EarliestInvalidFieldFails ==
    (Terminal /\ Cardinality(InvalidFields) >= 2)
        => /\ result.st = "error"
           /\ FieldOf(result.e) = EarliestInvalid
           /\ ~isMember(doc, "Name")
                => result.e = MissingRequiredField("Name", "package")
           /\ EarliestInvalid = "Name" => cps_version = "" /\ compres = NoResult
           /\ EarliestInvalid = "Cps-Version" => compres = NoResult

\* C2: for a document whose Name, Cps-Version and Components shape are valid
\* and in which some component's Type is a string outside the six spellings,
\* load returns a failure of kind UnknownEnumValue; the process is not aborted.
C2_UnknownTypeIsAFailure ==
    (Terminal /\ ~NameInvalid /\ ~CpsVersionInvalid /\ ComponentsShapeValid
              /\ \E k \in DOMAIN Entries : EntryUnknownType(Entries[k]))
        => /\ pc # "aborted"
           /\ result.st = "error"
           /\ result.e.kind = "UnknownEnumValue"

\* C6: a Package load returns has at least one component; a document whose
\* Components is an object without entries makes get_components, and load,
\* fail with EmptyRequiredCollection.
C6_ComponentsNeverEmpty ==
    /\ result.st = "value" => DOMAIN result.v.components # {}
    /\ (isMember(doc, "Components") /\ isObject(doc.m["Components"])
            /\ DOMAIN doc.m["Components"].m = {})
        => /\ compres.st \in {"none", "error"}
           /\ compres.st = "error"
                => compres.e = EmptyRequiredCollection("Components", "package")
           /\ Terminal => result.st = "error"
           /\ (Terminal /\ ~NameInvalid /\ ~CpsVersionInvalid)
                => result.e = EmptyRequiredCollection("Components", "package")

C6_Witness ==
    /\ pc = "returned"
    /\ isMember(doc, "Components")
    /\ doc.m["Components"] = JObj(EmptyMap)
    /\ isMember(doc, "Default-Components")
    /\ result.st = "error"
    /\ result.e.kind = "EmptyRequiredCollection"

\* C7: if an entry under Components is invalid (not an object, Type missing
\* or not a string, Compile-Flags or Includes malformed), get_components and
\* load return a failure and no component map or Package, whatever the other
\* entries are.
C7_AllOrNothing ==
    (Terminal /\ ComponentsShapeValid
              /\ \E k \in DOMAIN Entries : EntryInvalid(Entries[k]))
        => /\ result.st = "error"
           /\ compres.st \in {"none", "error"}
           /\ (~NameInvalid /\ ~CpsVersionInvalid) => compres.st = "error"

\* C10: for a minimal valid document (Name and Cps-Version strings, one
\* component holding only a Type of one of the six spellings, no
\* Default-Components) load succeeds; the Package has the document's name and
\* version, the component's name as its only key, the kind of the spelling,
\* and no default_components.
C10_MinimalDocumentLoads ==
    (Terminal /\ ~NameInvalid /\ ~CpsVersionInvalid /\ ComponentsShapeValid
              /\ ~isMember(doc, "Default-Components")
              /\ Cardinality(DOMAIN Entries) = 1
              /\ \A k \in DOMAIN Entries :
                    /\ isObject(Entries[k])
                    /\ DOMAIN Entries[k].m = {"Type"}
                    /\ StringField(Entries[k], "Type")
                    /\ Entries[k].m["Type"].s \in Spellings)
        => /\ pc = "returned"
           /\ result.st = "value"
           /\ result.v.name = doc.m["Name"].s
           /\ result.v.cps_version = doc.m["Cps-Version"].s
           /\ DOMAIN result.v.components = DOMAIN Entries
           /\ \A k \in DOMAIN Entries :
                 result.v.components[k].type = KindOf(Entries[k].m["Type"].s)
           /\ result.v.default_components = nullopt

C10_Witness ==
    /\ pc = "returned"
    /\ result.st = "value"
    /\ ~isMember(doc, "Default-Components")
    /\ result.v.name = "foo"
    /\ result.v.cps_version = "0.9.0"
    /\ DOMAIN result.v.components = {"lib2"}
    /\ result.v.components["lib2"].type = "INTERFACE"
    /\ doc.m["Components"].m["lib2"] = JObj("Type" :> JStr("interfafce"))

====
